---- MODULE Spec2Model ----
(***************************************************************************)
(* The review task queue engine of review-tool/backend: queue_config.py    *)
(* (queue namespace), queue_manager.py (QueueManager over Redis) and the   *)
(* queue endpoints of routes.py.                                           *)
(*                                                                         *)
(* The Redis database is the variable redis: its sorted sets (key ->       *)
(* member -> score) and its hashes (key -> field -> value).  A key that    *)
(* holds nothing is absent, as in Redis.  Every QueueManager method is a   *)
(* sequence of store calls; each store call is one step of a call frame,   *)
(* so the same definitions give the handlers run one at a time (Spec) and  *)
(* the handlers of several callers interleaved call by call (SpecConc).    *)
(***************************************************************************)
EXTENDS Integers, Sequences, FiniteSets, TLC

VARIABLES redis, clock, calls, hist

vars == <<redis, clock, calls, hist>>

\* ------------------------------------------------------------------ bounds

\* time.time() in milliseconds ranges over 1..MaxClock
MaxClock == 2
\* image ids range over 1..MaxImageId
MaxImageId == 2
\* add_review_task runs at most MaxTasks times (escalation children included)
MaxTasks == 2
\* callers of SpecConc
NumCallers == 2

\* ------------------------------------------------------- queue_config.py

QUEUE_PREFIX == "review"

PDQ == "pdq"
MD5 == "md5"
SHA1 == "sha1"
ESCALATED == "escalated"
MANUAL == "manual"

QueueNames_get_all == <<PDQ, MD5, SHA1, ESCALATED, MANUAL>>

QueueNames_get_hash_types == <<PDQ, MD5, SHA1>>

CONTENT_CATEGORIES ==
    <<"adult", "violence", "hate_speech", "terrorism", "self_harm", "spam", "other">>

ConfidenceLevels_get_all == <<"high", "medium", "low">>

\* lines 84-88 without the suffix of line 87
get_queue_name_no_suffix(queue_type, category, is_escalated) ==
    QUEUE_PREFIX \o ":" \o queue_type \o ":" \o category

get_queue_name(queue_type, category, is_escalated) ==
    LET prefix == QUEUE_PREFIX
        escalated_suffix == IF is_escalated THEN "_escalated" ELSE ""
    IN  prefix \o ":" \o queue_type \o ":" \o category \o escalated_suffix

\* ------------------------------------------------------- python helpers

Range(s) == {s[i] : i \in DOMAIN s}

EmptyMap == [k \in {} |-> 0]

\* d[k] = v on a dict: the key is added when it is missing
DictSet(d, k, v) == [x \in DOMAIN d \cup {k} |-> IF x = k THEN v ELSE d[x]]

DictDel(d, k) == [x \in DOMAIN d \ {k} |-> d[x]]

\* Optional[...] is a sequence of length at most one; None is <<>>
None == <<>>
Some(v) == <<v>>

\* truth value of an Optional[bool]: None and False are falsy
Truthy(opt) == opt # None /\ opt[1]

\* json.dumps / json.loads: the stored value is the serialised text of the dict
json_dumps(d) == <<"json", d>>
json_loads(s) == s[2]

\* datetime.utcnow().isoformat(): the text of the instant
isoformat(t) == <<"iso", t>>

\* ------------------------------------------------------------- job ids

ImageIds == 1..MaxImageId
Times == 0..MaxClock

\* f"task:{int(time.time() * 1000)}:{image_id}"
make_job_id(ms, image_id) == "task:" \o ToString(ms) \o ":" \o ToString(image_id)

\* the bytes of str(n), n >= 0 ("0" is 48)
RECURSIVE DecimalBytes(_)
DecimalBytes(n) == IF n < 10 THEN <<48 + n>> ELSE DecimalBytes(n \div 10) \o <<48 + (n % 10)>>

\* the bytes of a job id after its constant prefix "task:" (":" is 58)
IdBytes(id) ==
    LET p == CHOOSE q \in Times \X ImageIds : make_job_id(q[1], q[2]) = id
    IN  DecimalBytes(p[1]) \o <<58>> \o DecimalBytes(p[2])

RECURSIVE BytesLess(_, _)
BytesLess(a, b) ==
    IF a = <<>> THEN b # <<>>
    ELSE IF b = <<>> THEN FALSE
    ELSE IF a[1] # b[1] THEN a[1] < b[1]
    ELSE BytesLess(Tail(a), Tail(b))

\* Redis orders the members of a sorted set that have equal scores by their bytes
MemberLess(a, b) == BytesLess(IdBytes(a), IdBytes(b))

\* ---------------------------------------------------- Redis store calls

ZSet(r, key) == IF key \in DOMAIN r.zsets THEN r.zsets[key] ELSE EmptyMap

Hash(r, key) == IF key \in DOMAIN r.hashes THEN r.hashes[key] ELSE EmptyMap

\* ZADD key score member: inserts the member, or updates its score
zadd(r, key, member, score) ==
    [r EXCEPT !.zsets = DictSet(r.zsets, key, DictSet(ZSet(r, key), member, score))]

\* ZREM key member: a sorted set left empty is deleted
zrem(r, key, member) ==
    LET z == DictDel(ZSet(r, key), member)
    IN  IF key \notin DOMAIN r.zsets THEN r
        ELSE IF z = EmptyMap THEN [r EXCEPT !.zsets = DictDel(r.zsets, key)]
        ELSE [r EXCEPT !.zsets = DictSet(r.zsets, key, z)]

\* order of a sorted set: ascending score, then ascending member bytes
ZBefore(z, a, b) == z[a] < z[b] \/ (z[a] = z[b] /\ MemberLess(a, b))

\* ZRANGE key 0 0: the first member in ascending order, as a list
zrange_0_0(r, key) ==
    LET z == ZSet(r, key)
    IN  IF z = EmptyMap THEN <<>>
        ELSE <<CHOOSE m \in DOMAIN z : \A o \in DOMAIN z \ {m} : ZBefore(z, m, o)>>

\* ZSCORE key member: None when the member is missing
zscore(r, key, member) ==
    IF member \in DOMAIN ZSet(r, key) THEN Some(ZSet(r, key)[member]) ELSE None

\* HSET key field value
hset(r, key, field, value) ==
    [r EXCEPT !.hashes = DictSet(r.hashes, key, DictSet(Hash(r, key), field, value))]

\* HGET key field: None when the key or the field is missing
hget(r, key, field) ==
    IF field \in DOMAIN Hash(r, key) THEN Some(Hash(r, key)[field]) ELSE None

\* HINCRBY key field n: a missing field counts as 0
hincrby(r, key, field, n) ==
    LET h == Hash(r, key)
        old == IF field \in DOMAIN h THEN h[field] ELSE 0
    IN  hset(r, key, field, old + n)

\* ----------------------------------------- QueueManager.add_review_task
\* A call frame holds the arguments and locals of one running call and pc, the
\* store call it makes next.  A step runs the local code up to and including
\* that store call.  Every step returns [r |-> the store, f |-> the frame].

add_init(image_id, content_category, hash_algorithm, confidence_level, is_escalated, priority, metadata) ==
    [pc |-> "hset_data",
     image_id |-> image_id, content_category |-> content_category,
     hash_algorithm |-> hash_algorithm, confidence_level |-> confidence_level,
     is_escalated |-> is_escalated, priority |-> priority, metadata |-> metadata,
     job_id |-> "", queue_name |-> "", job_key |-> "",
     raised |-> FALSE, ret |-> None]

\* the three checks that raise ValueError
\* add_review_task without the check of lines 52-53
add_valid_no_confidence_check(a) ==
    /\ a.content_category \in Range(CONTENT_CATEGORIES)
    /\ (a.hash_algorithm \in Range(QueueNames_get_hash_types) \/ a.hash_algorithm = MANUAL)

add_valid(a) ==
    /\ a.content_category \in Range(CONTENT_CATEGORIES)
    /\ (a.hash_algorithm \in Range(QueueNames_get_hash_types) \/ a.hash_algorithm = MANUAL)
    /\ a.confidence_level \in Range(ConfidenceLevels_get_all)

\* the queue a task is filed under
\* lines 57-58 with every task filed under its hash algorithm
add_queue_name_by_algorithm(hash_algorithm, content_category, is_escalated) ==
    get_queue_name(hash_algorithm, content_category, FALSE)

add_queue_name(hash_algorithm, content_category, is_escalated) ==
    LET queue_type == IF is_escalated THEN ESCALATED ELSE hash_algorithm
    IN  get_queue_name(queue_type, content_category, is_escalated)

add_job_data(a, job_id, now) ==
    [id |-> job_id,
     imageId |-> a.image_id,
     contentCategory |-> a.content_category,
     hashAlgorithm |-> a.hash_algorithm,
     confidenceLevel |-> a.confidence_level,
     isEscalated |-> a.is_escalated,
     createdAt |-> isoformat(now),
     status |-> "pending",
     metadata |-> IF a.metadata = None THEN EmptyMap ELSE a.metadata[1]]

\* validation, the job id, and the first store call: HSET job_key data
add_hset_data(r, a, now) ==
    IF ~add_valid(a)
    THEN [r |-> r, f |-> [a EXCEPT !.pc = "done", !.raised = TRUE]]
    ELSE LET job_id == make_job_id(now, a.image_id)
             queue_name == add_queue_name(a.hash_algorithm, a.content_category, a.is_escalated)
             job_key == "bull:" \o queue_name \o ":" \o job_id
         IN  [r |-> hset(r, job_key, "data", json_dumps(add_job_data(a, job_id, now))),
              f |-> [a EXCEPT !.pc = "hset_opts", !.job_id = job_id,
                              !.queue_name = queue_name, !.job_key = job_key]]

add_hset_opts(r, a) ==
    [r |-> hset(r, a.job_key, "opts", json_dumps([priority |-> a.priority])),
     f |-> [a EXCEPT !.pc = "zadd"]]

add_zadd(r, a) ==
    [r |-> zadd(r, "bull:" \o a.queue_name \o ":wait", a.job_id, a.priority),
     f |-> [a EXCEPT !.pc = "hincr_total"]]

add_hincr_total(r, a) ==
    [r |-> hincrby(r, "bull:" \o a.queue_name \o ":metrics", "total", 1),
     f |-> [a EXCEPT !.pc = "hincr_pending"]]

add_hincr_pending(r, a) ==
    [r |-> hincrby(r, "bull:" \o a.queue_name \o ":metrics", "pending", 1),
     f |-> [a EXCEPT !.pc = "done", !.ret = Some(a.job_id)]]

add_step(r, a, now) ==
    CASE a.pc = "hset_data" -> add_hset_data(r, a, now)
      [] a.pc = "hset_opts" -> add_hset_opts(r, a)
      [] a.pc = "zadd" -> add_zadd(r, a)
      [] a.pc = "hincr_total" -> add_hincr_total(r, a)
      [] a.pc = "hincr_pending" -> add_hincr_pending(r, a)

\* ------------------------------------------- QueueManager.get_next_task

\* lines 103-106 with QueueNames.get_all() as the default of hash_types
gn_init_all_types(content_categories, hash_algorithms, confidence_levels, is_escalated) ==
    [op |-> "next", pc |-> "zrange",
     confidence_levels |-> confidence_levels, is_escalated |-> is_escalated,
     categories |-> IF content_categories = <<>> THEN CONTENT_CATEGORIES
                    ELSE content_categories,
     hash_types |-> IF Truthy(is_escalated) THEN <<ESCALATED>>
                    ELSE IF hash_algorithms = <<>> THEN QueueNames_get_all
                    ELSE hash_algorithms,
     ci |-> 1, ti |-> 1,
     queue_name |-> "", job_id |-> "", job_key |-> "", job_data |-> EmptyMap,
     ret |-> None]

gn_init(content_categories, hash_algorithms, confidence_levels, is_escalated) ==
    [op |-> "next", pc |-> "zrange",
     confidence_levels |-> confidence_levels, is_escalated |-> is_escalated,
     categories |-> IF content_categories = <<>> THEN CONTENT_CATEGORIES
                    ELSE content_categories,
     hash_types |-> IF Truthy(is_escalated) THEN <<ESCALATED>>
                    ELSE IF hash_algorithms = <<>> THEN QueueNames_get_hash_types
                    ELSE hash_algorithms,
     ci |-> 1, ti |-> 1,
     queue_name |-> "", job_id |-> "", job_key |-> "", job_data |-> EmptyMap,
     ret |-> None]

\* the next iteration of "for category in categories: for queue_type in
\* hash_types:", or the return None after the loops
gn_continue(f) ==
    IF f.ti < Len(f.hash_types) THEN [f EXCEPT !.pc = "zrange", !.ti = f.ti + 1]
    ELSE IF f.ci < Len(f.categories) THEN [f EXCEPT !.pc = "zrange", !.ci = f.ci + 1, !.ti = 1]
    ELSE [f EXCEPT !.pc = "done", !.ret = None]

\* the first job in the wait queue
gn_first(r, queue_name) == zrange_0_0(r, "bull:" \o queue_name \o ":wait")

\* the head of the loop body: ZRANGE wait 0 0
gn_zrange(r, f) ==
    LET queue_name == get_queue_name(f.hash_types[f.ti], f.categories[f.ci],
                                     Truthy(f.is_escalated))
        job_id == gn_first(r, queue_name)
    IN  [r |-> r,
         f |-> IF job_id # <<>>
               THEN [f EXCEPT !.pc = "hget", !.queue_name = queue_name,
                              !.job_id = job_id[1],
                              !.job_key = "bull:" \o queue_name \o ":" \o job_id[1]]
               ELSE gn_continue(f)]

\* HGET job_key data, and the confidence filter on the task it holds
\* get_next_task without the confidence filter of lines 120-121
gn_hget_no_confidence_filter(r, f) ==
    LET job_data_str == hget(r, f.job_key, "data")
    IN  [r |-> r,
         f |-> IF job_data_str = None THEN gn_continue(f)
               ELSE [f EXCEPT !.pc = "zrem", !.job_data = json_loads(job_data_str[1])]]

\* lines 120-121 with "return None" in the place of "continue"
gn_hget_stops_at_mismatch(r, f) ==
    LET job_data_str == hget(r, f.job_key, "data")
        job_data == json_loads(job_data_str[1])
    IN  [r |-> r,
         f |-> IF job_data_str = None THEN gn_continue(f)
               ELSE IF /\ f.confidence_levels # <<>>
                       /\ job_data.confidenceLevel \notin Range(f.confidence_levels)
               THEN [f EXCEPT !.pc = "done", !.ret = None]
               ELSE [f EXCEPT !.pc = "zrem", !.job_data = job_data]]

gn_hget(r, f) ==
    LET job_data_str == hget(r, f.job_key, "data")
        job_data == json_loads(job_data_str[1])
    IN  [r |-> r,
         f |-> IF job_data_str = None THEN gn_continue(f)
               ELSE IF /\ f.confidence_levels # <<>>
                       /\ job_data.confidenceLevel \notin Range(f.confidence_levels)
               THEN gn_continue(f)
               ELSE [f EXCEPT !.pc = "zrem", !.job_data = job_data]]

gn_zrem(r, f) ==
    [r |-> zrem(r, "bull:" \o f.queue_name \o ":wait", f.job_id),
     f |-> [f EXCEPT !.pc = "zadd"]]

gn_zadd(r, f, now) ==
    [r |-> zadd(r, "bull:" \o f.queue_name \o ":active", f.job_id, now),
     f |-> [f EXCEPT !.pc = "hset"]]

\* lines 128-130 without the startedAt stamp of line 129
gn_hset_no_startedAt(r, f, now) ==
    LET job_data == DictSet(f.job_data, "status", "active")
    IN  [r |-> hset(r, f.job_key, "data", json_dumps(job_data)),
         f |-> [f EXCEPT !.pc = "hincr_pending", !.job_data = job_data]]

gn_hset(r, f, now) ==
    LET job_data == DictSet(DictSet(f.job_data, "status", "active"),
                            "startedAt", isoformat(now))
    IN  [r |-> hset(r, f.job_key, "data", json_dumps(job_data)),
         f |-> [f EXCEPT !.pc = "hincr_pending", !.job_data = job_data]]

gn_hincr_pending(r, f) ==
    [r |-> hincrby(r, "bull:" \o f.queue_name \o ":metrics", "pending", -1),
     f |-> [f EXCEPT !.pc = "hincr_active"]]

gn_hincr_active(r, f) ==
    [r |-> hincrby(r, "bull:" \o f.queue_name \o ":metrics", "active", 1),
     f |-> [f EXCEPT !.pc = "done", !.ret = Some(f.job_data)]]

gn_step(r, f, now) ==
    CASE f.pc = "zrange" -> gn_zrange(r, f)
      [] f.pc = "hget" -> gn_hget(r, f)
      [] f.pc = "zrem" -> gn_zrem(r, f)
      [] f.pc = "zadd" -> gn_zadd(r, f, now)
      [] f.pc = "hset" -> gn_hset(r, f, now)
      [] f.pc = "hincr_pending" -> gn_hincr_pending(r, f)
      [] f.pc = "hincr_active" -> gn_hincr_active(r, f)

\* ------------------------------------------- QueueManager.complete_task

ct_init(job_id, result, notes) ==
    [op |-> "complete", pc |-> "zscore",
     job_id |-> job_id, result |-> result, notes |-> notes,
     ci |-> 1, ti |-> 1, ei |-> 1,
     queue_name |-> "", job_key |-> "", job_data |-> EmptyMap,
     add |-> None, raised |-> FALSE, ret |-> None]

\* for is_escalated in [False, True]
ct_escalated_flags == <<FALSE, TRUE>>

\* the next iteration of the three loops over the active sets, or the
\* return False after them
ct_continue(f) ==
    IF f.ei < Len(ct_escalated_flags) THEN [f EXCEPT !.ei = f.ei + 1]
    ELSE IF f.ti < Len(QueueNames_get_all) THEN [f EXCEPT !.ti = f.ti + 1, !.ei = 1]
    ELSE IF f.ci < Len(CONTENT_CATEGORIES) THEN [f EXCEPT !.ci = f.ci + 1, !.ti = 1, !.ei = 1]
    ELSE [f EXCEPT !.pc = "done", !.ret = Some(FALSE)]

\* whether the job is in the active set of the queue
ct_is_active(r, active_key, job_id) == zscore(r, active_key, job_id) # None

\* ZSCORE active job_id on the queue the loops are at
ct_zscore(r, f) ==
    LET q_name == get_queue_name(QueueNames_get_all[f.ti], CONTENT_CATEGORIES[f.ci],
                                 ct_escalated_flags[f.ei])
    IN  [r |-> r,
         f |-> IF ct_is_active(r, "bull:" \o q_name \o ":active", f.job_id)
               THEN [f EXCEPT !.pc = "hget", !.queue_name = q_name,
                              !.job_key = "bull:" \o q_name \o ":" \o f.job_id]
               ELSE ct_continue(f)]

\* the completed status, result, completedAt and notes on the task read
ct_job_data(job_data, result, notes, now) ==
    LET d == DictSet(DictSet(DictSet(job_data, "status", "completed"),
                             "result", result),
                     "completedAt", isoformat(now))
    IN  IF notes # None /\ notes[1] # "" THEN DictSet(d, "notes", notes[1]) ELSE d

\* HGET job_key data
ct_hget(r, f, now) ==
    LET job_data_str == hget(r, f.job_key, "data")
    IN  [r |-> r,
         f |-> IF job_data_str = None THEN [f EXCEPT !.pc = "done", !.ret = Some(FALSE)]
               ELSE [f EXCEPT !.pc = "zrem",
                              !.job_data = ct_job_data(json_loads(job_data_str[1]),
                                                       f.result, f.notes, now)]]

ct_zrem(r, f) ==
    [r |-> zrem(r, "bull:" \o f.queue_name \o ":active", f.job_id),
     f |-> [f EXCEPT !.pc = "zadd"]]

ct_zadd(r, f, now) ==
    [r |-> zadd(r, "bull:" \o f.queue_name \o ":completed", f.job_id, now),
     f |-> [f EXCEPT !.pc = "hset"]]

ct_hset(r, f) ==
    [r |-> hset(r, f.job_key, "data", json_dumps(f.job_data)),
     f |-> [f EXCEPT !.pc = "hincr_active"]]

ct_hincr_active(r, f) ==
    [r |-> hincrby(r, "bull:" \o f.queue_name \o ":metrics", "active", -1),
     f |-> [f EXCEPT !.pc = "hincr_completed"]]

ct_hincr_completed(r, f) ==
    [r |-> hincrby(r, "bull:" \o f.queue_name \o ":metrics", "completed", 1),
     f |-> [f EXCEPT !.pc = "hincr_result"]]

\* the arguments of the add_review_task call that files the escalation
\* the escalation of lines 199-211 with the default priority of add_review_task
ct_escalation_default_priority(f, now) ==
    add_init(f.job_data.imageId, f.job_data.contentCategory, f.job_data.hashAlgorithm,
             f.job_data.confidenceLevel, TRUE, 0,
             Some([originalJobId |-> f.job_id, escalatedAt |-> isoformat(now),
                   notes |-> f.notes]))

ct_escalation(f, now) ==
    add_init(f.job_data.imageId, f.job_data.contentCategory, f.job_data.hashAlgorithm,
             f.job_data.confidenceLevel, TRUE, 10,
             Some([originalJobId |-> f.job_id, escalatedAt |-> isoformat(now),
                   notes |-> f.notes]))

\* lines 193-211 with the escalation filed for every result but "approved"
ct_hincr_result_escalates_rejected(r, f, now) ==
    [r |-> hincrby(r, "bull:" \o f.queue_name \o ":metrics", "result:" \o f.result, 1),
     f |-> IF f.result # "approved"
           THEN [f EXCEPT !.pc = "add", !.add = Some(ct_escalation(f, now))]
           ELSE [f EXCEPT !.pc = "done", !.ret = Some(TRUE)]]

\* HINCRBY metrics result:<result>, then the test for "escalated"
ct_hincr_result(r, f, now) ==
    [r |-> hincrby(r, "bull:" \o f.queue_name \o ":metrics", "result:" \o f.result, 1),
     f |-> IF f.result = "escalated"
           THEN [f EXCEPT !.pc = "add", !.add = Some(ct_escalation(f, now))]
           ELSE [f EXCEPT !.pc = "done", !.ret = Some(TRUE)]]

\* one store call of the nested add_review_task; its ValueError is not caught
ct_add(r, f, now) ==
    LET n == add_step(r, f.add[1], now)
    IN  [r |-> n.r,
         f |-> IF n.f.pc # "done" THEN [f EXCEPT !.add = Some(n.f)]
               ELSE IF n.f.raised THEN [f EXCEPT !.pc = "done", !.add = Some(n.f), !.raised = TRUE]
               ELSE [f EXCEPT !.pc = "done", !.add = Some(n.f), !.ret = Some(TRUE)]]

ct_step(r, f, now) ==
    CASE f.pc = "zscore" -> ct_zscore(r, f)
      [] f.pc = "hget" -> ct_hget(r, f, now)
      [] f.pc = "zrem" -> ct_zrem(r, f)
      [] f.pc = "zadd" -> ct_zadd(r, f, now)
      [] f.pc = "hset" -> ct_hset(r, f)
      [] f.pc = "hincr_active" -> ct_hincr_active(r, f)
      [] f.pc = "hincr_completed" -> ct_hincr_completed(r, f)
      [] f.pc = "hincr_result" -> ct_hincr_result(r, f, now)
      [] f.pc = "add" -> ct_add(r, f, now)

\* POST /queues/tasks: the frame of add_task around add_review_task
at_init(req) ==
    [op |-> "add", pc |-> "add",
     add |-> Some(add_init(req.image_id, req.content_category, req.hash_algorithm,
                           req.confidence_level, req.is_escalated, req.priority, None)),
     raised |-> FALSE, ret |-> None]

at_step(r, f, now) ==
    LET n == add_step(r, f.add[1], now)
    IN  [r |-> n.r,
         f |-> IF n.f.pc # "done" THEN [f EXCEPT !.add = Some(n.f)]
               ELSE [f EXCEPT !.pc = "done", !.add = Some(n.f),
                              !.raised = n.f.raised, !.ret = n.f.ret]]

\* ------------------------------------------------------------- history
\* hist.added counts, per <<queue name, job id>>, the tasks add_review_task
\* put in a wait set; hist.returned counts the tasks get_next_task returned;
\* hist.completed counts, per <<queue name, result>>, the calls of complete_task
\* that returned True.

BagAdd(b, k) == DictSet(b, k, IF k \in DOMAIN b THEN b[k] + 1 ELSE 1)

BagCount(b, k) == IF k \in DOMAIN b THEN b[k] ELSE 0

RECURSIVE BagSize(_)
BagSize(b) ==
    IF DOMAIN b = {} THEN 0
    ELSE LET k == CHOOSE x \in DOMAIN b : TRUE IN b[k] + BagSize(DictDel(b, k))

\* the history after the step that took frame f to frame g
observe(h, f, g) ==
    IF f.op \in {"add", "complete"} /\ f.pc = "add" /\ f.add[1].pc = "zadd"
    THEN [h EXCEPT !.added = BagAdd(h.added, <<f.add[1].queue_name, f.add[1].job_id>>)]
    ELSE IF g.op = "next" /\ g.pc = "done" /\ g.ret # None
    THEN [h EXCEPT !.returned = BagAdd(h.returned, <<g.queue_name, g.job_id>>)]
    ELSE IF g.op = "complete" /\ g.pc = "done" /\ g.ret = Some(TRUE)
    THEN [h EXCEPT !.completed = BagAdd(h.completed, <<g.queue_name, g.result>>)]
    ELSE h

\* ------------------------------------------------------- running calls

step(r, f, now) ==
    CASE f.op = "add" -> at_step(r, f, now)
      [] f.op = "next" -> gn_step(r, f, now)
      [] f.op = "complete" -> ct_step(r, f, now)

\* The loops of get_next_task and complete_task make one store call per queue.
\* When no other call runs in between, the calls that find nothing change
\* nothing, and a call run alone goes straight to the first queue that holds
\* something (or to the last queue of the loops).

\* the order of the loops with the queue type as the outer loop
LoopLeq_type_outer(p, q) ==
    \/ p[2] < q[2]
    \/ p[2] = q[2] /\ p[1] < q[1]
    \/ p[1] = q[1] /\ p[2] = q[2] /\ p[3] <= q[3]

\* position p of the loops is before position q, or is q
LoopLeq(p, q) ==
    \/ p[1] < q[1]
    \/ p[1] = q[1] /\ p[2] < q[2]
    \/ p[1] = q[1] /\ p[2] = q[2] /\ p[3] <= q[3]

ct_positions ==
    (DOMAIN CONTENT_CATEGORIES) \X (DOMAIN QueueNames_get_all) \X (DOMAIN ct_escalated_flags)

\* the active set of the queue at each position of the loops of complete_task
ct_active_key ==
    [p \in ct_positions |->
        "bull:" \o get_queue_name(QueueNames_get_all[p[2]], CONTENT_CATEGORIES[p[1]],
                                  ct_escalated_flags[p[3]]) \o ":active"]

ct_skip(r, f) ==
    LET Hits == {p \in ct_positions :
                    /\ ct_active_key[p] \in DOMAIN r.zsets
                    /\ LoopLeq(<<f.ci, f.ti, f.ei>>, p)
                    /\ ct_is_active(r, ct_active_key[p], f.job_id)}
        first == CHOOSE p \in Hits : \A q \in Hits : LoopLeq(p, q)
    IN  IF Hits = {}
        THEN [f EXCEPT !.ci = Len(CONTENT_CATEGORIES), !.ti = Len(QueueNames_get_all),
                       !.ei = Len(ct_escalated_flags)]
        ELSE [f EXCEPT !.ci = first[1], !.ti = first[2], !.ei = first[3]]

\* get_queue_name on the names of queue_config.py, as a table
queue_name_of ==
    [t \in Range(QueueNames_get_all), c \in Range(CONTENT_CATEGORIES), e \in BOOLEAN |->
        get_queue_name(t, c, e)]

gn_skip(r, f) ==
    LET Pos == (f.ci..Len(f.categories)) \X (DOMAIN f.hash_types) \X {1}
        name(p) == queue_name_of[f.hash_types[p[2]], f.categories[p[1]],
                                 Truthy(f.is_escalated)]
        Hits == {p \in Pos :
                    /\ ("bull:" \o name(p) \o ":wait") \in DOMAIN r.zsets
                    /\ LoopLeq(<<f.ci, f.ti, 1>>, p)
                    /\ gn_first(r, name(p)) # <<>>}
        first == CHOOSE p \in Hits : \A q \in Hits : LoopLeq(p, q)
    IN  IF Hits = {}
        THEN [f EXCEPT !.ci = Len(f.categories), !.ti = Len(f.hash_types)]
        ELSE [f EXCEPT !.ci = first[1], !.ti = first[2]]

skip(r, f) ==
    IF f.op = "complete" /\ f.pc = "zscore" THEN ct_skip(r, f)
    ELSE IF f.op = "next" /\ f.pc = "zrange" THEN gn_skip(r, f)
    ELSE f

\* a call run from frame f to its return with no other call in between
RECURSIVE run(_, _, _, _)
run(r, f, h, now) ==
    IF f.pc = "done" THEN [r |-> r, f |-> f, h |-> h]
    ELSE LET g == skip(r, f)
             n == step(r, g, now)
         IN  run(n.r, n.f, observe(h, g, n.f), now)

\* the methods of QueueManager run alone on store r at time now:
\* [r |-> the store after, f |-> the frame at the return, h |-> the history]
add_review_task(r, h, now, req) == run(r, at_init(req), h, now)

get_next_task(r, h, now, req) ==
    run(r, gn_init(req.content_categories, req.hash_algorithms,
                   req.confidence_levels, req.is_escalated), h, now)

complete_task(r, h, now, req) == run(r, ct_init(req.job_id, req.result, req.notes), h, now)

\* ------------------------------------------------- routes.py endpoints
\* [r |-> the store after, h |-> the history, status, body |-> the response]

\* POST /queues/tasks: {"jobId": job_id}, or 400 on ValueError
add_task(r, h, now, req) ==
    LET out == add_review_task(r, h, now, req)
    IN  IF out.f.raised THEN [r |-> out.r, h |-> out.h, status |-> 400, body |-> None]
        ELSE [r |-> out.r, h |-> out.h, status |-> 200, body |-> out.f.ret]

\* GET /queues/tasks/next: the task, or null
routes_get_next_task(r, h, now, req) ==
    LET out == get_next_task(r, h, now, req)
    IN  [r |-> out.r, h |-> out.h, status |-> 200, body |-> out.f.ret]

\* the results POST /queues/tasks/{job_id}/complete accepts
complete_results == <<"approved", "rejected", "escalated">>

\* the endpoint without the check of lines 528-529
routes_complete_task_no_400(r, h, now, req) ==
    LET out == complete_task(r, h, now, req)
    IN  IF out.f.raised THEN [r |-> out.r, h |-> out.h, status |-> 500, body |-> None]
        ELSE IF ~out.f.ret[1] THEN [r |-> out.r, h |-> out.h, status |-> 404, body |-> None]
        ELSE [r |-> out.r, h |-> out.h, status |-> 200, body |-> Some("success")]

\* the endpoint without the 404 of lines 532-533
routes_complete_task_no_404(r, h, now, req) ==
    IF req.result \notin Range(complete_results)
    THEN [r |-> r, h |-> h, status |-> 400, body |-> None]
    ELSE LET out == complete_task(r, h, now, req)
         IN  [r |-> out.r, h |-> out.h, status |-> 200, body |-> Some("success")]

\* POST /queues/tasks/{job_id}/complete: {"status": "success"}, 400 on a result
\* that is not accepted, 404 when complete_task returns False
routes_complete_task(r, h, now, req) ==
    IF req.result \notin Range(complete_results)
    THEN [r |-> r, h |-> h, status |-> 400, body |-> None]
    ELSE LET out == complete_task(r, h, now, req)
         IN  IF out.f.raised THEN [r |-> out.r, h |-> out.h, status |-> 500, body |-> None]
             ELSE IF ~out.f.ret[1] THEN [r |-> out.r, h |-> out.h, status |-> 404, body |-> None]
             ELSE [r |-> out.r, h |-> out.h, status |-> 200, body |-> Some("success")]

Idle == [op |-> "idle", pc |-> "done"]

Callers == 1..NumCallers

\* ------------------------------------------------------------- requests

\* tasks for the queues of ("spam", pdq), escalated and not, and one task each
\* for two queues of another category
ValidAddRequests ==
    [image_id : ImageIds,
     content_category : {"spam"},
     hash_algorithm : {PDQ},
     confidence_level : {"high"},
     is_escalated : BOOLEAN,
     priority : {1, 5}]
    \cup
    [image_id : ImageIds,
     content_category : {"spam"},
     hash_algorithm : {PDQ},
     confidence_level : {"low"},
     is_escalated : {FALSE},
     priority : {1}]
    \cup
    [image_id : {1},
     content_category : {"adult"},
     hash_algorithm : {MD5, MANUAL},
     confidence_level : {"high"},
     is_escalated : {FALSE},
     priority : {5}]

\* one request per check of add_review_task that can fail
InvalidAddRequests ==
    LET base == [image_id |-> 1, content_category |-> "spam", hash_algorithm |-> PDQ,
                 confidence_level |-> "high", is_escalated |-> FALSE, priority |-> 1]
    IN  {[base EXCEPT !.content_category = "bogus"],
         [base EXCEPT !.hash_algorithm = ESCALATED],
         [base EXCEPT !.confidence_level = "bogus"]}

AddRequests == ValidAddRequests \cup InvalidAddRequests

NextRequests ==
    [content_categories : {<<>>, <<"spam">>},
     hash_algorithms : {<<>>},
     confidence_levels : {<<>>, <<"high">>},
     is_escalated : {None, Some(TRUE)}]
    \cup
    [content_categories : {<<>>},
     hash_algorithms : {<<MANUAL>>, <<MD5, PDQ>>},
     confidence_levels : {<<>>},
     is_escalated : {None, Some(FALSE)}]
    \cup
    [content_categories : {<<"spam">>},
     hash_algorithms : {<<MD5>>},
     confidence_levels : {<<>>},
     is_escalated : {Some(TRUE)}]

\* a job id no task has
UnknownId == make_job_id(0, 1)

\* the job ids add_review_task has handed out
KnownIds(h) == {k[2] : k \in DOMAIN h.added}

CompleteRequests(h) ==
    [job_id : KnownIds(h) \cup {UnknownId},
     result : {"approved", "rejected", "escalated", "bogus"},
     notes : {Some("x")}]
    \cup
    [job_id : KnownIds(h), result : {"approved"}, notes : {None}]

\* ------------------------------------------------------------- actions

Init ==
    /\ redis = [zsets |-> EmptyMap, hashes |-> EmptyMap]
    /\ clock = 1
    /\ calls = [c \in Callers |-> Idle]
    /\ hist = [added |-> EmptyMap, returned |-> EmptyMap, completed |-> EmptyMap]

\* the wall clock advances between calls (or does not: two calls can read
\* the same millisecond)
Tick ==
    /\ clock < MaxClock
    /\ clock' = clock + 1
    /\ UNCHANGED <<redis, calls, hist>>

\* a handler run alone
Serve(out) ==
    /\ redis' = out.r
    /\ hist' = out.h
    /\ UNCHANGED <<clock, calls>>

AddTask ==
    \E req \in AddRequests :
        /\ BagSize(hist.added) < MaxTasks
        /\ Serve(add_task(redis, hist, clock, req))

GetNextTask == \E req \in NextRequests : Serve(routes_get_next_task(redis, hist, clock, req))

CompleteTask ==
    \E req \in CompleteRequests(hist) :
        /\ req.result = "escalated" => BagSize(hist.added) < MaxTasks
        /\ Serve(routes_complete_task(redis, hist, clock, req))

Next == AddTask \/ GetNextTask \/ CompleteTask \/ Tick

Spec == Init /\ [][Next]_vars

\* ------------------------------------------------- views of the store

WaitSet(r, queue_name) == DOMAIN ZSet(r, "bull:" \o queue_name \o ":wait")

ActiveSet(r, queue_name) == DOMAIN ZSet(r, "bull:" \o queue_name \o ":active")

CompletedSet(r, queue_name) == DOMAIN ZSet(r, "bull:" \o queue_name \o ":completed")

\* the score of a pending task in the wait set: its priority
WaitScore(r, queue_name, job_id) == ZSet(r, "bull:" \o queue_name \o ":wait")[job_id]

JobKey(queue_name, job_id) == "bull:" \o queue_name \o ":" \o job_id

\* the task record stored under a job key
JobData(r, queue_name, job_id) == json_loads(Hash(r, JobKey(queue_name, job_id))["data"])

JobOpts(r, queue_name, job_id) == json_loads(Hash(r, JobKey(queue_name, job_id))["opts"])

\* a counter of the metrics hash of a queue
Metric(r, queue_name, field) ==
    LET m == Hash(r, "bull:" \o queue_name \o ":metrics")
    IN  IF field \in DOMAIN m THEN m[field] ELSE 0

\* the tasks created so far, each <<queue name, job id>>, and their queues
Tasks == DOMAIN hist.added

Queues == {k[1] : k \in Tasks}

\* requests of CompleteTask with a result the endpoint accepts
AcceptedCompleteRequests ==
    {req \in CompleteRequests(hist) : req.result \in Range(complete_results)}

\* the instants a later call can read
Later == clock..MaxClock

\* the job id is in the active set of a queue that holds tasks
InSomeActiveSet(r, h, job_id) == \E q \in {k[1] : k \in DOMAIN h.added} : job_id \in ActiveSet(r, q)

\* ------------------------------------------------- concurrent callers
\* The endpoints are plain "def" functions, which FastAPI runs in the threads
\* of its pool: two requests of GET /queues/tasks/next and
\* POST /queues/tasks/{job_id}/complete run at the same time. The store
\* serialises the single calls, so the calls of two handlers interleave one
\* store call at a time.
\* calls[c] is the frame of caller c between two store calls.

\* tasks for the first queue of the loops of complete_task, each with an id
\* no task has had
ConcAddRequests ==
    [image_id : {1},
     content_category : {"adult"},
     hash_algorithm : {PDQ},
     confidence_level : {"high"},
     is_escalated : {FALSE},
     priority : {5}]

ConcNextRequests ==
    [content_categories : {<<"adult">>},
     hash_algorithms : {<<PDQ>>},
     confidence_levels : {<<>>},
     is_escalated : {None}]

\* a reviewer completes a task that is in review
ConcCompleteRequests(r, h) ==
    [job_id : {id \in KnownIds(h) : InSomeActiveSet(r, h, id)},
     result : {"approved"},
     notes : {None}]

\* caller c makes the next store call of frame f, and returns when that was
\* the last one
Advance(c, f) ==
    LET n == step(redis, f, clock)
    IN  /\ redis' = n.r
        /\ hist' = observe(hist, f, n.f)
        /\ calls' = [calls EXCEPT ![c] = IF n.f.pc = "done" THEN Idle ELSE n.f]
        /\ UNCHANGED clock

\* a task is filed while no request is between the store calls of its
\* add_review_task
SeedTask ==
    \E req \in ConcAddRequests :
        /\ BagSize(hist.added) < MaxTasks
        /\ make_job_id(clock, req.image_id) \notin KnownIds(hist)
        /\ Serve(add_task(redis, hist, clock, req))

BeginGetNextTask ==
    \E c \in Callers : \E req \in ConcNextRequests :
        /\ calls[c] = Idle
        /\ Advance(c, gn_init(req.content_categories, req.hash_algorithms,
                              req.confidence_levels, req.is_escalated))

BeginCompleteTask ==
    \E c \in Callers : \E req \in ConcCompleteRequests(redis, hist) :
        /\ calls[c] = Idle
        /\ Advance(c, ct_init(req.job_id, req.result, req.notes))

Continue ==
    \E c \in Callers :
        /\ calls[c] # Idle
        /\ Advance(c, calls[c])

NextConc == SeedTask \/ BeginGetNextTask \/ BeginCompleteTask \/ Continue \/ Tick

SpecConc == Init /\ [][NextConc]_vars

\* ---------------------------------------------------------------- claims

\* C1: with callers running GetNextTask concurrently, interleaved at the level
\* of individual store calls, no task is ever returned by two GetNextTask
\* calls.
C1_AtMostOnceDispatch ==
    \A k \in DOMAIN hist.returned : hist.returned[k] <= 1

\* C2: whenever GetNextTask without a confidence filter returns a task T taken
\* from queue Q, no task pending in Q at that moment has a priority strictly
\* higher than T's.
C2_PriorityOrdering ==
    \A req \in NextRequests :
        LET out == get_next_task(redis, hist, clock, req)
        IN  (req.confidence_levels = <<>> /\ out.f.ret # None) =>
                \A j \in WaitSet(redis, out.f.queue_name) :
                    WaitScore(redis, out.f.queue_name, j)
                        <= WaitScore(redis, out.f.queue_name, out.f.job_id)

\* C3: after any sequence of AddTask / GetNextTask / CompleteTask calls run one
\* at a time, every task id is in exactly one of the wait set, the active set
\* and the completed set of its queue.
C3_StateExclusivity ==
    \A k \in Tasks :
        Cardinality({w \in {"wait", "active", "completed"} :
                        k[2] \in DOMAIN ZSet(redis, "bull:" \o k[1] \o ":" \o w)}) = 1

\* C4: with GetNextTask and CompleteTask callers interleaved at the level of
\* individual store calls, no reachable state, intermediate states included,
\* has a task id in two of the wait set, the active set and the completed set
\* of its queue.
C4_ConcurrentExclusivity ==
    \A k \in Tasks :
        /\ ~(k[2] \in WaitSet(redis, k[1]) /\ k[2] \in ActiveSet(redis, k[1]))
        /\ ~(k[2] \in WaitSet(redis, k[1]) /\ k[2] \in CompletedSet(redis, k[1]))
        /\ ~(k[2] \in ActiveSet(redis, k[1]) /\ k[2] \in CompletedSet(redis, k[1]))

\* C5: when CompleteTask on an id succeeds, a later CompleteTask on the same id
\* (a retry, with no other call in between) fails with NotFound and changes
\* nothing: no second counter update, no second escalation child.
C5_IdempotentCompletion ==
    \A req \in AcceptedCompleteRequests : \A retry \in AcceptedCompleteRequests :
        LET first == routes_complete_task(redis, hist, clock, req)
        IN  (first.status = 200 /\ retry.job_id = req.job_id) =>
                \A now \in Later :
                    LET second == routes_complete_task(first.r, first.h, now, retry)
                    IN  second.status = 404 /\ second.r = first.r /\ second.h = first.h

\* the queue of the escalated partition for a category
EscalatedQueue(category) == get_queue_name(ESCALATED, category, TRUE)

\* the requests of CompleteTask with result escalated that succeed now, each
\* with the call's outcome
Escalations ==
    {req \in AcceptedCompleteRequests :
        req.result = "escalated" /\ complete_task(redis, hist, clock, req).f.ret = Some(TRUE)}

\* C6: a successful CompleteTask(id, escalated) on an active task of category C
\* adds exactly one new pending task, in the wait set of the (escalated, C)
\* queue: that wait set grows by exactly one member, and no other wait set
\* changes.
C6_EscalationSpawnsOne ==
    \A req \in Escalations :
        LET out == complete_task(redis, hist, clock, req)
            parent == JobData(redis, out.f.queue_name, req.job_id)
            q == EscalatedQueue(parent.contentCategory)
            new == WaitSet(out.r, q) \ WaitSet(redis, q)
        IN  /\ Cardinality(new) = 1
            /\ Cardinality(WaitSet(out.r, q)) = Cardinality(WaitSet(redis, q)) + 1
            /\ \A j \in new : JobData(out.r, q, j).status = "pending"
            /\ \A k \in DOMAIN hist.added \cup DOMAIN out.h.added :
                   k[1] # q => WaitSet(out.r, k[1]) = WaitSet(redis, k[1])

\* C7: the child task created by CompleteTask(id, escalated) has the imageId,
\* contentCategory, hashAlgorithm and confidenceLevel of the parent,
\* isEscalated = true, priority = 10 and metadata.originalJobId = id.
C7_EscalationChild ==
    \A req \in Escalations :
        LET out == complete_task(redis, hist, clock, req)
            parent == JobData(redis, out.f.queue_name, req.job_id)
            q == EscalatedQueue(parent.contentCategory)
            child_id == make_job_id(clock, parent.imageId)
            child == JobData(out.r, q, child_id)
        IN  /\ child_id \in WaitSet(out.r, q)
            /\ child.imageId = parent.imageId
            /\ child.contentCategory = parent.contentCategory
            /\ child.hashAlgorithm = parent.hashAlgorithm
            /\ child.confidenceLevel = parent.confidenceLevel
            /\ child.isEscalated = TRUE
            /\ JobOpts(out.r, q, child_id).priority = 10
            /\ WaitScore(out.r, q, child_id) = 10
            /\ child.metadata.originalJobId = req.job_id

\* a task is in the escalated partition, pending, filed by complete_task for a
\* parent that is completed with result escalated
C7_Witness ==
    \E k \in Tasks : \E p \in Tasks :
        /\ k[2] \in WaitSet(redis, k[1])
        /\ p[2] \in CompletedSet(redis, p[1])
        /\ JobData(redis, p[1], p[2]).result = "escalated"
        /\ DOMAIN JobData(redis, k[1], k[2]).metadata # {}
        /\ JobData(redis, k[1], k[2]).metadata.originalJobId = p[2]
        /\ JobData(redis, k[1], k[2]).hashAlgorithm = PDQ
        /\ k[1] = EscalatedQueue(JobData(redis, p[1], p[2]).contentCategory)

\* C8: CompleteTask on a task id that is in no active set (still pending,
\* already completed, or unknown) fails with NotFound and leaves every set,
\* task record and counter unchanged.
C8_CompleteNotActive ==
    \A req \in AcceptedCompleteRequests :
        ~InSomeActiveSet(redis, hist, req.job_id) =>
            LET out == routes_complete_task(redis, hist, clock, req)
            IN  out.status = 404 /\ out.r = redis /\ out.h = hist

\* CompleteTask is refused with 404 for a pending task, for a completed task
\* and for an unknown id, while another task is active
C8_Witness ==
    /\ \E k \in Tasks : k[2] \in ActiveSet(redis, k[1])
    /\ \E k \in Tasks :
          /\ k[2] \in CompletedSet(redis, k[1])
          /\ ~InSomeActiveSet(redis, hist, k[2])
          /\ routes_complete_task(redis, hist, clock,
                 [job_id |-> k[2], result |-> "approved", notes |-> None]).status = 404
    /\ routes_complete_task(redis, hist, clock,
           [job_id |-> UnknownId, result |-> "rejected", notes |-> Some("x")]).status = 404

\* the task records of the store, by job key
TaskRecords(r) == {key \in DOMAIN r.hashes : "data" \in DOMAIN r.hashes[key]}

\* C9: every successful AddTask creates exactly one fresh task: the returned id
\* differs from the id of every task created before, the store gains exactly
\* one task record, and the target queue's wait set gains exactly one member.
C9_AddCreatesOneFreshTask ==
    \A req \in AddRequests :
        LET out == add_task(redis, hist, clock, req)
            id == out.body[1]
            q == add_queue_name(req.hash_algorithm, req.content_category, req.is_escalated)
        IN  out.status = 200 =>
                /\ id \notin KnownIds(hist)
                /\ JobKey(q, id) \notin TaskRecords(redis)
                /\ TaskRecords(out.r) = TaskRecords(redis) \cup {JobKey(q, id)}
                /\ id \notin WaitSet(redis, q)
                /\ WaitSet(out.r, q) = WaitSet(redis, q) \cup {id}

\* the values AddTask accepts
ValidCategories == Range(CONTENT_CATEGORIES)
ValidAlgorithms == Range(QueueNames_get_hash_types)
ValidConfidenceLevels == Range(ConfidenceLevels_get_all)

\* C10: AddTask with a contentCategory outside the valid categories, a
\* hashAlgorithm outside the valid algorithms plus "manual", or a
\* confidenceLevel outside the valid levels fails with InvalidArgument (400),
\* and the store is unchanged.
C10_AddRejectsInvalid ==
    \A req \in AddRequests :
        (\/ req.content_category \notin ValidCategories
         \/ req.hash_algorithm \notin ValidAlgorithms \cup {MANUAL}
         \/ req.confidence_level \notin ValidConfidenceLevels) =>
            LET out == add_task(redis, hist, clock, req)
            IN  out.status = 400 /\ out.r = redis /\ out.h = hist

\* the three invalid requests are refused on a store that holds tasks
C10_Witness ==
    /\ Tasks # {}
    /\ \A req \in InvalidAddRequests : add_task(redis, hist, clock, req).status = 400
    /\ \E req \in InvalidAddRequests : req.content_category \notin ValidCategories
    /\ \E req \in InvalidAddRequests : req.hash_algorithm \notin ValidAlgorithms \cup {MANUAL}
    /\ \E req \in InvalidAddRequests : req.confidence_level \notin ValidConfidenceLevels

\* C11: among pending tasks of equal priority in the same queue, GetNextTask
\* returns them in the order AddTask inserted them: after two tasks of equal
\* priority are added to a queue, a GetNextTask that takes a task from that
\* queue never returns the second while the first is pending.
C11_FifoAmongEqualPriority ==
    \A a1 \in ValidAddRequests : \A a2 \in ValidAddRequests : \A now2 \in Later :
        LET q == add_queue_name(a1.hash_algorithm, a1.content_category, a1.is_escalated)
            s1 == add_task(redis, hist, clock, a1)
            s2 == add_task(s1.r, s1.h, now2, a2)
            id1 == s1.body[1]
            id2 == s2.body[1]
        IN  (/\ q = add_queue_name(a2.hash_algorithm, a2.content_category, a2.is_escalated)
             /\ a1.priority = a2.priority
             /\ id1 # id2
             /\ {id1, id2} \cap KnownIds(hist) = {}) =>
                \A req \in NextRequests :
                    LET out == get_next_task(s2.r, s2.h, now2, req)
                    IN  (out.f.ret # None /\ out.f.queue_name = q) => out.f.job_id # id2

\* the position of a status on the path pending -> active -> completed
StatusRank(status) ==
    CASE status = "pending" -> 0
      [] status = "active" -> 1
      [] status = "completed" -> 2

\* C12: the stored status of a task only moves forward along
\* pending -> active -> completed: no step takes it from completed back to
\* active or pending, or from active back to pending.
C12_StatusMovesForward ==
    [][\A k \in Tasks :
          StatusRank(JobData(redis, k[1], k[2]).status)
              <= StatusRank(JobData(redis', k[1], k[2]).status)]_vars

\* every queue name get_queue_name can build
AllQueueNames ==
    {queue_name_of[t, c, e] : <<t, c, e>> \in
        Range(QueueNames_get_all) \X Range(CONTENT_CATEGORIES) \X BOOLEAN}

\* the queues with the job id in their wait, active or completed set
QueuesHolding(r, job_id) ==
    {q \in AllQueueNames :
        job_id \in WaitSet(r, q) \cup ActiveSet(r, q) \cup CompletedSet(r, q)}

\* C13: a task belongs to exactly one queue for its whole life: all sets (wait,
\* active, completed) that contain a task id belong to the single queue the
\* task was created in, also after the task is completed with result
\* escalated.
C13_OneQueueForLife ==
    \A k \in Tasks : QueuesHolding(redis, k[2]) \subseteq {k[1]}

\* ------------------------------------------- one round of dispatchers
\* A queue is filled, then every caller makes one GetNextTask call, all at the
\* same time; calls[c] keeps the frame of caller c at its return.

\* caller c makes the next store call of frame f; the frame stays when the
\* call has returned
AdvanceOnce(c, f) ==
    LET n == step(redis, f, clock)
    IN  /\ redis' = n.r
        /\ hist' = observe(hist, f, n.f)
        /\ calls' = [calls EXCEPT ![c] = n.f]
        /\ UNCHANGED clock

RoundSeed ==
    /\ \A c \in Callers : calls[c] = Idle
    /\ SeedTask

RoundBegin ==
    \E c \in Callers : \E req \in ConcNextRequests :
        /\ calls[c] = Idle
        /\ AdvanceOnce(c, gn_init(req.content_categories, req.hash_algorithms,
                                  req.confidence_levels, req.is_escalated))

RoundContinue ==
    \E c \in Callers :
        /\ calls[c] # Idle
        /\ calls[c].pc # "done"
        /\ AdvanceOnce(c, calls[c])

NextRound == RoundSeed \/ RoundBegin \/ RoundContinue \/ Tick

SpecRound == Init /\ [][NextRound]_vars

\* every caller has made its call and has its answer
RoundOver == \A c \in Callers : calls[c] # Idle /\ calls[c].pc = "done"

\* the task ids the callers were given
RoundReturned == {calls[c].job_id : c \in {d \in Callers : calls[d].ret # None}}

Min(a, b) == IF a <= b THEN a ELSE b

\* C14: when N callers run GetNextTask concurrently against a queue holding M
\* pending tasks, the set of task ids returned has exactly min(N, M) distinct
\* elements.
C14_RoundReturnsMinNM ==
    RoundOver => Cardinality(RoundReturned) = Min(NumCallers, Cardinality(Tasks))

\* a filter of GetNextTask that was not supplied accepts every value
Accepts(filter, value) == filter = <<>> \/ value \in Range(filter)

EscalatedTypeRequests ==
    [content_categories : {<<>>},
     hash_algorithms : {<<ESCALATED>>, <<ESCALATED, PDQ>>},
     confidence_levels : {<<>>},
     is_escalated : {None, Some(FALSE), Some(TRUE)}]

hgetall(r, key) == Hash(r, key)

\* int(metrics.get(field, 0))
gs_metric(metrics, field) == IF field \in DOMAIN metrics THEN metrics[field] ELSE 0

\* line 254 without "* 100"
gs_success_rate_as_ratio(takedowns, total_completed) ==
    IF total_completed > 0 THEN <<takedowns, total_completed>> ELSE <<0, 1>>

\* takedowns / total_completed * 100, as the fraction <<numerator, denominator>>
\* (0 is <<0, 1>>)
gs_success_rate(takedowns, total_completed) ==
    IF total_completed > 0 THEN <<takedowns * 100, total_completed>> ELSE <<0, 1>>

\* the two "continue" of the loop body
gs_skipped(queue_type, is_escalated) ==
    \/ Truthy(is_escalated) /\ queue_type # ESCALATED
    \/ is_escalated = Some(FALSE) /\ queue_type = ESCALATED

\* the loop body for one queue
gs_stats(r, now, category, queue_type, is_escalated) ==
    LET queue_name == get_queue_name(queue_type, category, Truthy(is_escalated))
        metrics == hgetall(r, "bull:" \o queue_name \o ":metrics")
        total_completed == gs_metric(metrics, "completed")
        takedowns == gs_metric(metrics, "result:rejected")
        wait_key == "bull:" \o queue_name \o ":wait"
        oldest_job == zrange_0_0(r, wait_key)
    IN  [queueName |-> queue_name,
         contentCategory |-> category,
         hashAlgorithm |-> queue_type,
         isEscalated |-> Truthy(is_escalated),
         pending |-> gs_metric(metrics, "pending"),
         active |-> gs_metric(metrics, "active"),
         completed |-> total_completed,
         successRate |-> gs_success_rate(takedowns, total_completed),
         oldestTaskAge |-> IF oldest_job # <<>>
                           THEN now - ZSet(r, wait_key)[oldest_job[1]] ELSE 0]

\* the <<category, queue type>> pairs the two loops reach and do not skip, in
\* the order of the loops; content_category, hash_algorithm and is_escalated
\* are None or Some(value)
gs_queues(content_category, hash_algorithm, is_escalated) ==
    LET categories == IF content_category # None THEN <<content_category[1]>>
                      ELSE CONTENT_CATEGORIES
        hash_types == IF hash_algorithm # None THEN <<hash_algorithm[1]>>
                      ELSE QueueNames_get_all
        n == Len(hash_types)
        all == [i \in 1..(Len(categories) * n) |->
                   <<categories[((i - 1) \div n) + 1], hash_types[((i - 1) % n) + 1]>>]
    IN  SelectSeq(all, LAMBDA p : ~gs_skipped(p[2], is_escalated))

get_queue_stats(r, now, content_category, hash_algorithm, is_escalated) ==
    LET kept == gs_queues(content_category, hash_algorithm, is_escalated)
    IN  [i \in 1..Len(kept) |-> gs_stats(r, now, kept[i][1], kept[i][2], is_escalated)]

\* the store after the store calls of the loop body for one queue
\* lines 249 and 257 with ZPOPMIN in the place of ZRANGE 0 0
gs_store_calls_zpopmin(r, queue_name) ==
    LET wait_key == "bull:" \o queue_name \o ":wait"
        oldest_job == zrange_0_0(r, wait_key)
    IN  IF oldest_job # <<>> THEN zrem(r, wait_key, oldest_job[1]) ELSE r

\* HGETALL metrics_key and ZRANGE wait 0 0 WITHSCORES: both calls read
gs_store_calls(r, queue_name) == r

\* the store after get_queue_stats: the store calls of every queue of the loops
RECURSIVE gs_store(_, _, _)
gs_store(r, kept, is_escalated) ==
    IF kept = <<>> THEN r
    ELSE gs_store(gs_store_calls(r, get_queue_name(kept[1][2], kept[1][1], Truthy(is_escalated))),
                  Tail(kept), is_escalated)

\* GET /queues/stats: [r |-> the store after, status, body |-> the records]
routes_get_queue_stats(r, now, req) ==
    [r |-> gs_store(r, gs_queues(req.content_category, req.hash_algorithm, req.is_escalated),
                    req.is_escalated),
     status |-> 200,
     body |-> get_queue_stats(r, now, req.content_category, req.hash_algorithm,
                              req.is_escalated)]

\* the queue type, category and escalation flag of a queue name
QueueKey(queue_name) ==
    CHOOSE k \in Range(QueueNames_get_all) \X Range(CONTENT_CATEGORIES) \X BOOLEAN :
        queue_name_of[k[1], k[2], k[3]] = queue_name

\* the calls of GetQueueStats that ask for a queue: by its category or all
\* categories, by its type or all types, and by its escalation flag (unset
\* counts as false)
StatsRequests(queue_name) ==
    LET k == QueueKey(queue_name)
    IN  [content_category : {None, Some(k[2])},
         hash_algorithm : {None, Some(k[1])},
         is_escalated : IF k[3] THEN {Some(TRUE)} ELSE {None, Some(FALSE)}]

\* the successful completions in a queue, and those with result rejected
CompletedIn(h, queue_name) ==
    BagCount(h.completed, <<queue_name, "approved">>)
        + BagCount(h.completed, <<queue_name, "rejected">>)
        + BagCount(h.completed, <<queue_name, "escalated">>)

RejectedIn(h, queue_name) == BagCount(h.completed, <<queue_name, "rejected">>)

\* two fractions are the same number
SameRate(a, b) == a[1] * b[2] = b[1] * a[2]

\* C17: after any sequence of completions in a queue, GetQueueStats for that
\* queue reports completed equal to the number of tasks completed there and
\* successRate equal to 100 * (number completed with result rejected) /
\* completed, and 0 when completed is 0.
C17_StatsCorrect ==
    \A q \in Queues : \A req \in StatsRequests(q) :
        LET stats == get_queue_stats(redis, clock, req.content_category,
                                     req.hash_algorithm, req.is_escalated)
            mine == {i \in DOMAIN stats : stats[i].queueName = q}
        IN  /\ Cardinality(mine) = 1
            /\ \A i \in mine :
                  /\ stats[i].completed = CompletedIn(hist, q)
                  /\ IF CompletedIn(hist, q) = 0
                     THEN SameRate(stats[i].successRate, <<0, 1>>)
                     ELSE SameRate(stats[i].successRate,
                                   <<100 * RejectedIn(hist, q), CompletedIn(hist, q)>>)

\* a queue has two completions, one of them rejected: its successRate is 50;
\* another state has a queue with one completion with result escalated
C17_Witness ==
    \E q \in Queues :
        /\ CompletedIn(hist, q) = 2
        /\ RejectedIn(hist, q) = 1
        /\ \E req \in StatsRequests(q) :
              LET stats == get_queue_stats(redis, clock, req.content_category,
                                           req.hash_algorithm, req.is_escalated)
              IN  \E i \in DOMAIN stats :
                      /\ stats[i].queueName = q
                      /\ stats[i].completed = 2
                      /\ SameRate(stats[i].successRate, <<50, 1>>)

\* ------------------------------------------- a stream of arrivals
\* Low-priority tasks keep arriving in the queue the default scan of
\* get_next_task visits first, ("adult", pdq), and GetNextTask is called after
\* every arrival.

\* the i-th arrival of the stream
StreamArrival(i) ==
    [image_id |-> i, content_category |-> CONTENT_CATEGORIES[1],
     hash_algorithm |-> QueueNames_get_hash_types[1], confidence_level |-> "low",
     is_escalated |-> FALSE, priority |-> 1]

\* GetNextTask with no filter
DefaultNext ==
    [content_categories |-> <<>>, hash_algorithms |-> <<>>,
     confidence_levels |-> <<>>, is_escalated |-> None]

\* the store and the history after n arrivals, each followed by a GetNextTask
RECURSIVE stream(_, _, _, _)
stream(r, h, now, n) ==
    IF n = 0 THEN [r |-> r, h |-> h]
    ELSE LET s == stream(r, h, now, n - 1)
             a == add_task(s.r, s.h, now, StreamArrival(n))
             g == routes_get_next_task(a.r, a.h, now, DefaultNext)
         IN  [r |-> g.r, h |-> g.h]

\* the task is the only pending task, it is in a queue of the default scan
\* with a priority above that of the stream, and the stream's ids are new
WaitsAlone(k) ==
    /\ \A j \in Tasks : j[2] \in WaitSet(redis, j[1]) <=> j = k
    /\ QueueKey(k[1])[1] \in Range(QueueNames_get_hash_types)
    /\ ~QueueKey(k[1])[3]
    /\ WaitScore(redis, k[1], k[2]) > StreamArrival(1).priority
    /\ \A i \in ImageIds : make_job_id(clock, i) \notin KnownIds(hist)

\* C18: a higher-priority pending task is never starved: while GetNextTask
\* keeps being called, a pending high-priority task is dispatched even while
\* lower-priority tasks keep arriving into a different queue that is scanned
\* earlier.  Stated for a stream of MaxImageId arrivals: after the stream,
\* with one GetNextTask per arrival, the task is no longer pending.
C18_NotStarved ==
    \A k \in Tasks :
        WaitsAlone(k) =>
            k[2] \notin WaitSet(stream(redis, hist, clock, MaxImageId).r, k[1])

\* the pending tasks filed by an escalation, each with its parent's job id
PendingChildren ==
    {k \in Tasks :
        /\ k[2] \in WaitSet(redis, k[1])
        /\ "originalJobId" \in DOMAIN JobData(redis, k[1], k[2]).metadata}

\* the job id is in the completed set of a queue, with status completed and
\* result escalated in its record
CompletedEscalated(job_id) ==
    \E p \in Tasks :
        /\ p[2] = job_id
        /\ job_id \in CompletedSet(redis, p[1])
        /\ JobData(redis, p[1], job_id).status = "completed"
        /\ "result" \in DOMAIN JobData(redis, p[1], job_id)
        /\ JobData(redis, p[1], job_id).result = "escalated"

\* C19: in every reachable state in which the child task of an escalation is
\* in the escalated wait set (visible to GetNextTask), the parent task is
\* already in its queue's completed set with status completed and result
\* escalated.
C19_ParentCompletedBeforeChild ==
    \A k \in PendingChildren :
        CompletedEscalated(JobData(redis, k[1], k[2]).metadata.originalJobId)

\* ------------------------------------------- calls that stop partway
\* One request is served at a time; a store call can fail (the connection
\* drops), the exception ends the handler, and the store keeps what the
\* calls before it wrote.

NoCallInProgress == \A c \in Callers : calls[c] = Idle

CrashSeed == NoCallInProgress /\ SeedTask

CrashBeginGetNextTask == NoCallInProgress /\ BeginGetNextTask

CrashBeginCompleteTask == NoCallInProgress /\ BeginCompleteTask

\* the next store call of the request in progress fails
StoreFails ==
    \E c \in Callers :
        /\ calls[c] # Idle
        /\ calls' = [calls EXCEPT ![c] = Idle]
        /\ UNCHANGED <<redis, clock, hist>>

NextCrash ==
    \/ CrashSeed
    \/ CrashBeginGetNextTask
    \/ CrashBeginCompleteTask
    \/ Continue
    \/ StoreFails
    \/ Tick

SpecCrash == Init /\ [][NextCrash]_vars

\* the task is in the wait set, the active set or the completed set of its
\* queue
Recoverable(k) ==
    k[2] \in WaitSet(redis, k[1]) \cup ActiveSet(redis, k[1]) \cup CompletedSet(redis, k[1])

\* C20: if GetNextTask or CompleteTask stops partway (the store fails between
\* any two of its store calls), the task being moved is left recoverable: its
\* id is still a member of the wait set, the active set or the completed set
\* of its queue.
C20_RecoverableAfterFailure ==
    NoCallInProgress => \A k \in Tasks : Recoverable(k)

\* C21: the child task spawned by CompleteTask(id, escalated) is always placed
\* in a queue different from the queue of the parent task, for every parent
\* that can be active, a parent that is itself an escalated task included.
C21_ChildInDifferentQueue ==
    \A req \in Escalations :
        LET out == complete_task(redis, hist, clock, req)
        IN  out.f.add[1].queue_name # out.f.queue_name

\* the filters of GetQueueStats: each unset or set
AllStatsRequests ==
    [content_category : {None, Some("spam"), Some("adult")},
     hash_algorithm : {None, Some(PDQ), Some(MANUAL), Some(ESCALATED)},
     is_escalated : {None, Some(FALSE), Some(TRUE)}]

\* the record is one of the escalated partition: of queue type "escalated",
\* flagged escalated, or named as the queue of escalated tasks
EscalatedRecord(rec) ==
    \/ rec.hashAlgorithm = ESCALATED
    \/ rec.isEscalated
    \/ rec.queueName \in {EscalatedQueue(c) : c \in Range(CONTENT_CATEGORIES)}

\* C22: GetQueueStats called without isEscalated, or with isEscalated = false,
\* returns no record for the escalated partition; records for the escalated
\* partition appear only when isEscalated = true is passed.
C22_StatsEscalatedOnlyOnRequest ==
    \A req \in AllStatsRequests :
        LET stats == get_queue_stats(redis, clock, req.content_category,
                                     req.hash_algorithm, req.is_escalated)
        IN  req.is_escalated # Some(TRUE) =>
                \A i \in DOMAIN stats : ~EscalatedRecord(stats[i])

\* ------------------------------------------------- the keys of a queue

\* every job id add_review_task can make
AllJobIds == {make_job_id(ms, i) : <<ms, i>> \in Times \X ImageIds}

\* the keys of the store that belong to a queue: its three sorted sets, its
\* metrics hash and its job hashes
QueueKeys(queue_name) ==
    {"bull:" \o queue_name \o ":wait", "bull:" \o queue_name \o ":active",
     "bull:" \o queue_name \o ":completed", "bull:" \o queue_name \o ":metrics"}
    \cup {JobKey(queue_name, job_id) : job_id \in AllJobIds}

\* the keys whose value differs between two stores
ChangedKeys(r1, r2) ==
    {k \in DOMAIN r1.zsets \cup DOMAIN r2.zsets : ZSet(r1, k) # ZSet(r2, k)}
    \cup {k \in DOMAIN r1.hashes \cup DOMAIN r2.hashes : Hash(r1, k) # Hash(r2, k)}

\* the queue each key belongs to (the keys of different queues differ)
KeyQueue ==
    [k \in UNION {QueueKeys(q) : q \in AllQueueNames} |->
        CHOOSE q \in AllQueueNames : k \in QueueKeys(q)]

\* the change from r1 to r2 is within one queue (exactly one if the call
\* succeeded, none if it did not)
WithinOneQueue(r1, r2, succeeded) ==
    LET K == ChangedKeys(r1, r2)
    IN  /\ K \subseteq DOMAIN KeyQueue
        /\ Cardinality({KeyQueue[k] : k \in K}) = IF succeeded THEN 1 ELSE 0

\* requests of CompleteTask with result approved or rejected
PlainCompleteRequests ==
    {req \in CompleteRequests(hist) : req.result \in {"approved", "rejected"}}

\* C23: AddTask, GetNextTask and CompleteTask with result approved or rejected
\* change the sets, task records and counters of exactly one queue and leave
\* every other queue unchanged; CompleteTask with approved or rejected creates
\* no task.
C23_OnlyEscalationCrossesQueues ==
    /\ \A req \in AddRequests :
          LET out == add_task(redis, hist, clock, req)
          IN  WithinOneQueue(redis, out.r, out.status = 200)
    /\ \A req \in NextRequests :
          LET out == routes_get_next_task(redis, hist, clock, req)
          IN  WithinOneQueue(redis, out.r, out.body # None)
    /\ \A req \in PlainCompleteRequests :
          LET out == routes_complete_task(redis, hist, clock, req)
          IN  /\ WithinOneQueue(redis, out.r, out.status = 200)
              /\ TaskRecords(out.r) = TaskRecords(redis)
              /\ out.h.added = hist.added
              /\ \A q \in Queues : WaitSet(out.r, q) = WaitSet(redis, q)

\* two queues hold tasks, and a task of one of them is completed with result
\* rejected
C23_Witness ==
    /\ Cardinality(Queues) >= 2
    /\ \E req \in PlainCompleteRequests :
          /\ req.result = "rejected"
          /\ routes_complete_task(redis, hist, clock, req).status = 200

\* C24: GetQueueStats is read-only: for every combination of its filters, a
\* call leaves every wait set, active set, completed set, task record and
\* counter unchanged.
C24_StatsReadOnly ==
    \A req \in AllStatsRequests :
        routes_get_queue_stats(redis, clock, req).r = redis

\* a queue has a pending task, and a call of GetQueueStats reads its wait set
\* and counters and reports the task
C24_Witness ==
    \E q \in Queues, req \in AllStatsRequests :
        /\ WaitSet(redis, q) # {}
        /\ LET out == routes_get_queue_stats(redis, clock, req)
           IN  \E i \in DOMAIN out.body :
                   out.body[i].queueName = q /\ out.body[i].pending > 0

\* the triples (queue type, category, escalated) of valid types and categories
QueueTriples == Range(QueueNames_get_all) \X Range(CONTENT_CATEGORIES) \X BOOLEAN

\* C25: get_queue_name is injective: any two different triples (queue type,
\* category, escalated), the type among the valid queue types, the category
\* among the valid categories and escalated a boolean, have different queue
\* names, and so every queue that holds tasks is the queue of one triple only.
C25_QueueNameInjective ==
    /\ \A k1 \in QueueTriples, k2 \in QueueTriples :
          k1 # k2 => queue_name_of[k1] # queue_name_of[k2]
    /\ \A q \in Queues :
          Cardinality({k \in QueueTriples : queue_name_of[k] = q}) = 1

\* tasks are held in two queues whose triples differ in the escalation flag:
\* the queue names keep them apart
C25_Witness ==
    \E k1 \in QueueTriples, k2 \in QueueTriples :
        /\ k1[3] # k2[3]
        /\ queue_name_of[k1] \in Queues
        /\ queue_name_of[k2] \in Queues
        /\ WaitSet(redis, queue_name_of[k1]) # WaitSet(redis, queue_name_of[k2])

\* the fields of the metrics hashes that count results
ResultCounters == {"result:" \o x : x \in Range(complete_results)}

\* the metrics hashes of the store
MetricsKeys(r) == {"bull:" \o q \o ":metrics" : q \in AllQueueNames} \cap DOMAIN r.hashes

\* C26: a completion request whose result is not one of approved, rejected,
\* escalated is answered 400 and changes nothing in the store; no task record
\* has a result outside {approved, rejected, escalated}, and the only
\* result:<x> counters are those of these three results.
C26_OnlyKnownResults ==
    /\ \A req \in CompleteRequests(hist) :
          req.result \notin {"approved", "rejected", "escalated"} =>
              LET out == routes_complete_task(redis, hist, clock, req)
              IN  out.status = 400 /\ out.r = redis /\ out.h = hist
    /\ \A key \in TaskRecords(redis) :
          LET d == json_loads(redis.hashes[key]["data"])
          IN  "result" \in DOMAIN d => d["result"] \in {"approved", "rejected", "escalated"}
    /\ \A key \in MetricsKeys(redis) :
          DOMAIN redis.hashes[key]
              \subseteq {"total", "pending", "active", "completed"} \cup ResultCounters
    /\ \A k \in DOMAIN hist.completed : k[2] \in {"approved", "rejected", "escalated"}

\* a task is active, and a completion request for it with a result that is
\* not accepted is answered 400, where the same request with result approved
\* succeeds
C26_Witness ==
    \E req \in CompleteRequests(hist) :
        /\ req.result = "bogus"
        /\ routes_complete_task(redis, hist, clock, req).status = 400
        /\ routes_complete_task(redis, hist, clock, [req EXCEPT !.result = "approved"]).status = 200

\* the fields a task is created with, read from its record
CreatedWith(r, key) ==
    LET d == json_loads(r.hashes[key]["data"])
    IN  <<d["imageId"], d["contentCategory"], d["hashAlgorithm"], d["confidenceLevel"]>>

\* C27: tasks are never deleted: a task record that is in the store is still in
\* the store after every AddTask, GetNextTask and CompleteTask call, with the
\* imageId, contentCategory, hashAlgorithm and confidenceLevel it had (those it
\* was created with).
C27_TasksNeverDeleted ==
    [][\A key \in TaskRecords(redis) :
           /\ key \in TaskRecords(redis')
           /\ CreatedWith(redis', key) = CreatedWith(redis, key)]_vars

\* C28: a GetNextTask call that returns task T from queue Q removes T from the
\* wait set of Q, adds T to the active set of Q, sets the status of T to active
\* with a startedAt stamp, decreases the pending counter of Q by 1 and
\* increases the active counter of Q by 1.
C28_GetNextTaskEffects ==
    \A req \in NextRequests :
        LET out == get_next_task(redis, hist, clock, req)
            q == out.f.queue_name
            id == out.f.job_id
        IN  out.f.ret # None =>
                /\ id \in WaitSet(redis, q)
                /\ WaitSet(out.r, q) = WaitSet(redis, q) \ {id}
                /\ ActiveSet(out.r, q) = ActiveSet(redis, q) \cup {id}
                /\ JobData(out.r, q, id)["status"] = "active"
                /\ "startedAt" \in DOMAIN JobData(out.r, q, id)
                /\ JobData(out.r, q, id)["startedAt"] = isoformat(clock)
                /\ out.f.ret[1] = JobData(out.r, q, id)
                /\ Metric(out.r, q, "pending") = Metric(redis, q, "pending") - 1
                /\ Metric(out.r, q, "active") = Metric(redis, q, "active") + 1

\* a queue holds two pending tasks and an active one, and GetNextTask returns
\* one of the pending tasks
C28_Witness ==
    \E req \in NextRequests :
        LET out == get_next_task(redis, hist, clock, req)
        IN  /\ out.f.ret # None
            /\ Cardinality(WaitSet(redis, out.f.queue_name)) >= 1
            /\ Cardinality(ActiveSet(redis, out.f.queue_name)) >= 1
            /\ out.f.job_id \notin ActiveSet(redis, out.f.queue_name)

\* C29: a successful CompleteTask(id, result) removes the task from the active
\* set of its queue, adds it to the completed set, sets its status to completed
\* and records the result, and changes the counters of that queue by
\* active -1, completed +1 and result:<result> +1.
C29_CompleteTaskEffects ==
    \A req \in AcceptedCompleteRequests :
        LET out == complete_task(redis, hist, clock, req)
            q == out.f.queue_name
            id == req.job_id
            counter == "result:" \o req.result
        IN  (~out.f.raised /\ out.f.ret = Some(TRUE)) =>
                /\ id \in ActiveSet(redis, q)
                /\ ActiveSet(out.r, q) = ActiveSet(redis, q) \ {id}
                /\ CompletedSet(out.r, q) = CompletedSet(redis, q) \cup {id}
                /\ JobData(out.r, q, id)["status"] = "completed"
                /\ JobData(out.r, q, id)["result"] = req.result
                /\ Metric(out.r, q, "active") = Metric(redis, q, "active") - 1
                /\ Metric(out.r, q, "completed") = Metric(redis, q, "completed") + 1
                /\ Metric(out.r, q, counter) = Metric(redis, q, counter) + 1

\* the candidate queues of a GetNextTask request in the order of the scan:
\* category by category, and within a category type by type
Candidates(req) ==
    LET categories == IF req.content_categories = <<>> THEN CONTENT_CATEGORIES
                      ELSE req.content_categories
        types == IF Truthy(req.is_escalated) THEN <<ESCALATED>>
                 ELSE IF req.hash_algorithms = <<>> THEN QueueNames_get_hash_types
                 ELSE req.hash_algorithms
        n == Len(types)
    IN  [i \in 1..(Len(categories) * n) |->
            queue_name_of[types[((i - 1) % n) + 1], categories[((i - 1) \div n) + 1],
                          Truthy(req.is_escalated)]]

ConfidenceRequests ==
    [content_categories : {<<>>, <<"spam">>}, hash_algorithms : {<<>>, <<MD5, PDQ>>},
     confidence_levels : {<<"high">>, <<"low">>, <<"medium", "low">>},
     is_escalated : {None, Some(TRUE)}]

\* the head task of the queue does not match the confidence filter
HeadMismatch(r, queue_name, confidence_levels) ==
    /\ gn_first(r, queue_name) # <<>>
    /\ JobData(r, queue_name, gn_first(r, queue_name)[1])["confidenceLevel"]
           \notin Range(confidence_levels)

AlgorithmQueues ==
    {queue_name_of[t, c, FALSE] :
        <<t, c>> \in Range(QueueNames_get_hash_types) \X Range(CONTENT_CATEGORIES)}

\* C32: GetNextTask called with no filters returns none exactly when the wait
\* set of every non-escalated per-algorithm queue (every category x {pdq, md5,
\* sha1}) is empty; when it returns none it changes nothing in the store.
C32_NoneIffAlgorithmQueuesEmpty ==
    LET out == get_next_task(redis, hist, clock, DefaultNext)
    IN  /\ out.f.ret = None <=> \A q \in AlgorithmQueues : WaitSet(redis, q) = {}
        /\ out.f.ret = None => out.r = redis

\* tasks are pending, all of them in manual or escalated queues, and
\* GetNextTask with no filters returns none
C32_Witness ==
    /\ \E q \in Queues : WaitSet(redis, q) # {}
    /\ get_next_task(redis, hist, clock, DefaultNext).f.ret = None

\* C33: after any sequence of AddTask, GetNextTask and CompleteTask calls run
\* one at a time, for every queue the pending counter equals the size of the
\* wait set, the active counter the size of the active set, the completed
\* counter the size of the completed set, and total = pending + active +
\* completed.
C33_CountersMatchSets ==
    \A q \in Queues :
        /\ Metric(redis, q, "pending") = Cardinality(WaitSet(redis, q))
        /\ Metric(redis, q, "active") = Cardinality(ActiveSet(redis, q))
        /\ Metric(redis, q, "completed") = Cardinality(CompletedSet(redis, q))
        /\ Metric(redis, q, "total") = Metric(redis, q, "pending") + Metric(redis, q, "active")
                                           + Metric(redis, q, "completed")

\* C34: when two CompleteTask calls for the same active task run concurrently,
\* interleaved at the level of store calls, exactly one of them succeeds: a
\* queue never has more successful completions than completed tasks, and its
\* completed counter never exceeds the number of its completed tasks (which
\* join the completed set before the counter is raised).
C34_OneConcurrentCompletion ==
    \A q \in Queues :
        /\ CompletedIn(hist, q) <= Cardinality(CompletedSet(redis, q))
        /\ Metric(redis, q, "completed") <= Cardinality(CompletedSet(redis, q))

\* C35: after any sequence of operations run one at a time, the stored status
\* of a task is pending if and only if its id is in the wait set, active if
\* and only if it is in the active set, and completed if and only if it is in
\* the completed set of its queue.
C35_StatusAgreesWithSets ==
    \A k \in Tasks :
        LET status == JobData(redis, k[1], k[2])["status"]
        IN  /\ status = "pending" <=> k[2] \in WaitSet(redis, k[1])
            /\ status = "active" <=> k[2] \in ActiveSet(redis, k[1])
            /\ status = "completed" <=> k[2] \in CompletedSet(redis, k[1])

\* n calls of GetNextTask with no filters, one after the other, and no other
\* call: the store and the history after them
RECURSIVE drain(_, _, _, _)
drain(r, h, now, n) ==
    IF n = 0 THEN [r |-> r, h |-> h]
    ELSE LET out == routes_get_next_task(r, h, now, DefaultNext)
         IN  drain(out.r, out.h, now, n - 1)

\* the queues of tasks that are not escalated
PlainQueues == {q \in Queues : ~QueueKey(q)[3]}

\* C36: every non-escalated task accepted by AddTask (any valid category, any
\* accepted hashAlgorithm, "manual" included) is eventually returned by
\* GetNextTask when callers keep calling GetNextTask with no filters and no
\* further tasks are added: after as many such calls as there can be tasks,
\* no non-escalated task is still pending.
C36_PlainTasksEventuallyReturned ==
    LET out == drain(redis, hist, clock, MaxTasks)
    IN  \A q \in PlainQueues : WaitSet(out.r, q) = {}

\* C37: under any interleaving of concurrent GetNextTask and CompleteTask
\* callers, no counter of a queue (pending, active, completed, total) ever
\* becomes negative.
C37_CountersNeverNegative ==
    \A q \in Queues : \A field \in {"pending", "active", "completed", "total"} :
        Metric(redis, q, field) >= 0

\* the queues AddTask can populate: the queue add_review_task files a task
\* under, for every accepted algorithm, category and escalation flag
AddableQueues ==
    {add_queue_name(a, c, e) : <<a, c, e>> \in
        (Range(QueueNames_get_hash_types) \cup {MANUAL}) \X Range(CONTENT_CATEGORIES) \X BOOLEAN}

\* C38: every record returned by GetQueueStats, for every combination of its
\* filters, names a queue that AddTask can populate, so the tasks waiting in
\* the escalated partition are counted in the record reported for
\* hashAlgorithm "escalated".
C38_StatsNamePopulatableQueues ==
    \A req \in AllStatsRequests :
        LET stats == get_queue_stats(redis, clock, req.content_category,
                                     req.hash_algorithm, req.is_escalated)
        IN  \A i \in DOMAIN stats :
                /\ stats[i].queueName \in AddableQueues
                /\ stats[i].hashAlgorithm = ESCALATED =>
                       stats[i].pending
                           = Metric(redis, EscalatedQueue(stats[i].contentCategory), "pending")

====
